---- MODULE Spec2Model ----
(***************************************************************************)
(* Traffic Jam Whopper: the order ledger (Order, OrderRepository,          *)
(* OrderManager), the congestion detector (TrafficJamDetector over the     *)
(* mock maps client) and the coordinator (TrafficJamWhopper), as one       *)
(* process driven by the menu loop of main().                              *)
(***************************************************************************)
EXTENDS Integers, Sequences, FiniteSets, TLC

(***************************************************************************)
(* Bounds of the model.                                                    *)
(***************************************************************************)
\* the ledger is explored up to this many orders
MaxOrders == 2
\* the detector scans this many of the mock client's routes
MaxRoutes == 2

(***************************************************************************)
(* Program constants.                                                      *)
(***************************************************************************)
\* random.randint(1000, 9999) in Order.__init__
IdLo == 1000
IdHi == 9999
\* average_speed < 10 in check_traffic_on_route
JamSpeed == 10
\* microseconds per second: isoformat() prints the fraction only when it is not 0
Million == 1000 * 1000

\* MockGoogleMapsClient.routes, by name, in list order
AllRoutes ==
    << "Queen Street", "Karangahape Road", "Ponsonby Road", "Hobson Street",
       "Nelson Street", "Brigham Creek Road", "Lincoln Road", "Lake Road",
       "Glenfield Road", "Tamaki Drive", "Dominion Road", "Howick Road",
       "Pakuranga Road", "Te Irirangi Drive" >>

\* MockGoogleMapsClient.places_nearby: the route list, whatever the arguments
places_nearby == SubSeq(AllRoutes, 1, MaxRoutes)

\* the records places_nearby returns: a name and a geometry each
mock_routes ==
    [ i \in 1..Len(places_nearby) |-> [ name |-> places_nearby[i], geometry |-> TRUE ] ]

\* a directions result with one leg: distance in m, duration_in_traffic in s
Leg(distance, duration) ==
    [ kind |-> "leg", distance |-> distance, duration |-> duration ]

\* MockGoogleMapsClient.directions: results it can draw.
\* 1000 m in 1800 s is 2 km/h, 1000 m in 360 s is exactly 10 km/h,
\* 5000 m in 300 s is 60 km/h.
directions == { Leg(1000, 1800), Leg(1000, 360), Leg(5000, 300) }

(***************************************************************************)
(* Inputs typed at the menu, and the draws of random and of the clock.     *)
(***************************************************************************)
CustomerNames == { "Alice" }
\* locations typed by the operator: route names, a near miss, and a stranger
Locations == { places_nearby[i] : i \in 1..Len(places_nearby) }
                 \cup { "queen street", "K Road" }
\* what one Order() construction draws: the id from random.randint (either
\* end of the range) and the time from datetime.now(), in microseconds (a
\* whole second, or one with a fraction)
Draws == { << IdLo, Million >>, << IdHi, Million + 1 >> }
\* ids typed at "Enter order ID to cancel": the ids drawn and one never drawn
CancelIds == { d[1] : d \in Draws } \cup { IdLo + 1 }

\* Python's None, as returned by create_order and cancel_order
None == [ id |-> 0, customer_name |-> "", location |-> "",
          timestamp |-> 0, status |-> "None" ]

VARIABLES
    orders,                 \* OrderRepository.orders: the in-memory list
    file,                   \* data/orders.json: [exists, records]
    traffic_jam_locations,  \* TrafficJamWhopper.traffic_jam_locations
    detected,               \* what the latest find_traffic_jams() returned
    call,                   \* the latest menu operation and its arguments
    ret,                    \* the order it returned, or None
    retIdx,                 \* where the returned object sits in orders (0: None)
    wrote,                  \* whether it wrote the backing file
    triggered,              \* the trigger_order_availability calls it made
    raised,                 \* the exception that ended it and the process, or ""
    scan,                   \* a detector run on its own: inputs and outcome
    orders2,                \* OrderRepository.orders of a second process
    checked                 \* whether check_for_traffic_jams ran in this process

vars == << orders, file, traffic_jam_locations, detected,
           call, ret, retIdx, wrote, triggered, raised, scan, orders2,
           checked >>

\* the variables only the detector's and the second process's specifications move
aside == << scan, orders2 >>

Range(s) == { s[i] : i \in 1..Len(s) }

(***************************************************************************)
(* TrafficJamDetector                                                      *)
(***************************************************************************)
\* average_speed = (distance / 1000) / (duration / 3600) in IEEE doubles, as
\* << n, u >> for the double n - u * 2^-49 (2^-49 is the spacing of doubles
\* from 8 to 16).  Both divisions round: 1150 m in 414 s is 10 km/h exactly,
\* and the double computed for it is 9.999999999999998, one step under 10.0.
average_speed(distance, duration) ==
    CASE << distance, duration >> = << 1000, 1800 >> -> << 2, 0 >>
      [] << distance, duration >> = << 1000, 360 >>  -> << 10, 0 >>
      [] << distance, duration >> = << 1150, 414 >>  -> << 10, 1 >>
      [] << distance, duration >> = << 5000, 300 >>  -> << 60, 0 >>

\* speed < limit, for a whole limit
less_than(speed, limit) ==
    speed[1] < limit \/ (speed[1] = limit /\ speed[2] > 0)

\* the except block of check_traffic_on_route: it logs route['name'] and
\* returns False; without a name the KeyError leaves the method
on_exception(route) ==
    IF "name" \in DOMAIN route THEN "False" ELSE "raise"

\* check_traffic_on_route gone wrong: <= where the code compares with <
check_traffic_on_route_le(route, answer) ==
    IF "geometry" \notin DOMAIN route THEN on_exception(route)
    ELSE IF answer.kind = "raise" THEN on_exception(route)
    ELSE IF answer.kind = "empty" THEN "False"
    ELSE IF answer.kind = "no_legs" THEN on_exception(route)
    ELSE IF answer.duration = 0 THEN on_exception(route)
    ELSE IF "name" \notin DOMAIN route THEN on_exception(route)
    ELSE IF average_speed(answer.distance, answer.duration)[1] <= JamSpeed
         THEN "True"
         ELSE "False"

\* check_traffic_on_route: "True", "False", or "raise" when an exception
\* leaves it.  answer is what maps_client.directions does for this route.
check_traffic_on_route(route, answer) ==
    IF "geometry" \notin DOMAIN route THEN on_exception(route)
    ELSE IF answer.kind = "raise" THEN on_exception(route)
    ELSE IF answer.kind = "empty" THEN "False"
    ELSE IF answer.kind = "no_legs" THEN on_exception(route)
    ELSE IF answer.duration = 0 THEN on_exception(route)
    ELSE IF "name" \notin DOMAIN route THEN on_exception(route)
    ELSE IF less_than(average_speed(answer.distance, answer.duration), JamSpeed)
         THEN "True"
         ELSE "False"

\* the loop of find_traffic_jams from route i on: the names appended, and
\* whether an exception ended it
RECURSIVE find_from(_, _, _)
find_from(routes, answers, i) ==
    IF i > Len(routes) THEN [ raised |-> FALSE, jams |-> << >> ]
    ELSE LET c == check_traffic_on_route(routes[i], answers[i])
         IN  IF c = "raise" THEN [ raised |-> TRUE, jams |-> << >> ]
             ELSE LET rest == find_from(routes, answers, i + 1)
                  IN  IF c = "True" /\ ~ rest.raised
                      THEN [ raised |-> FALSE,
                             jams |-> << routes[i].name >> \o rest.jams ]
                      ELSE rest

\* find_traffic_jams: the names of the routes whose check is true, in list
\* order, unless a check raised
find_traffic_jams(routes, answers) == find_from(routes, answers, 1)

\* the check_traffic_on_route calls find_traffic_jams makes, with what each
\* came to: one per route, up to the first that raises
checks_made(routes, answers) ==
    LET each == [ i \in 1..Len(routes) |->
                    check_traffic_on_route(routes[i], answers[i]) ]
        stop == { i \in 1..Len(routes) : each[i] = "raise" }
    IN  IF stop = {} THEN each
        ELSE SubSeq(each, 1, CHOOSE i \in stop : \A j \in stop : i <= j)

(***************************************************************************)
(* Order                                                                   *)
(***************************************************************************)
\* Order.__init__, with the id random draws and the time the clock reads
Order(customer_name, location, id, now) ==
    [ id |-> id, customer_name |-> customer_name, location |-> location,
      timestamp |-> now, status |-> "Pending" ]

\* datetime.isoformat(): seconds, and the microseconds when they are not 0
isoformat(t) ==
    IF t % Million = 0 THEN << t \div Million >>
    ELSE << t \div Million, t % Million >>

\* datetime.fromisoformat()
fromisoformat(s) ==
    s[1] * Million + (IF Len(s) = 2 THEN s[2] ELSE 0)

\* Order.to_dict
to_dict(o) ==
    [ id |-> o.id, customer_name |-> o.customer_name, location |-> o.location,
      timestamp |-> isoformat(o.timestamp), status |-> o.status ]

\* Order.cancel gone wrong: the timestamp moves to the time of cancelling
cancel_stamped(o) == [ o EXCEPT !.status = "Removed", !.timestamp = o.timestamp + 1 ]


\* Order.cancel
cancel(o) == [ o EXCEPT !.status = "Removed" ]

(***************************************************************************)
(* OrderRepository                                                         *)
(***************************************************************************)
NoFile == [ exists |-> FALSE, records |-> << >> ]

\* save_orders: the file rewritten with every order's record
save_orders(os) ==
    [ exists |-> TRUE, records |-> [ i \in 1..Len(os) |-> to_dict(os[i]) ] ]

\* save_order gone wrong: the list kept as a map from id to order, so an
\* order whose id is already there takes that order's place
save_order_keyed(os, order) ==
    LET new == IF \E i \in 1..Len(os) : os[i].id = order.id
               THEN [ i \in 1..Len(os) |->
                        IF os[i].id = order.id THEN order ELSE os[i] ]
               ELSE Append(os, order)
    IN  [ orders |-> new, file |-> save_orders(new), wrote |-> TRUE ]

\* save_order: append, then rewrite
save_order(os, order) ==
    LET new == Append(os, order)
    IN  [ orders |-> new, file |-> save_orders(new), wrote |-> TRUE ]

\* get_orders (OrderRepository and OrderManager): the list itself
get_orders == orders

\* load_orders gone wrong: the constructor's fresh id is kept
load_orders_fresh_id(f, rid, now) ==
    IF f.exists
    THEN [ i \in 1..Len(f.records) |->
             [ Order(f.records[i].customer_name, f.records[i].location, rid, now)
                 EXCEPT !.timestamp = fromisoformat(f.records[i].timestamp),
                        !.status = f.records[i].status ] ]
    ELSE << >>

\* load_orders gone wrong: the constructor's status, Pending, is kept
load_orders_fresh_status(f, rid, now) ==
    IF f.exists
    THEN [ i \in 1..Len(f.records) |->
             [ Order(f.records[i].customer_name, f.records[i].location, rid, now)
                 EXCEPT !.id = f.records[i].id,
                        !.timestamp = fromisoformat(f.records[i].timestamp) ] ]
    ELSE << >>

\* load_orders: each record rebuilt by the constructor (which draws rid and
\* reads now), then id, timestamp and status overridden from the record
load_orders(f, rid, now) ==
    IF f.exists
    THEN [ i \in 1..Len(f.records) |->
             [ Order(f.records[i].customer_name, f.records[i].location, rid, now)
                 EXCEPT !.id = f.records[i].id,
                        !.timestamp = fromisoformat(f.records[i].timestamp),
                        !.status = f.records[i].status ] ]
    ELSE << >>

\* a file whose write stopped part way: the text of these records and no
\* closing bracket, which json.load rejects
Torn(records) == [ exists |-> TRUE, records |-> records, torn |-> TRUE ]

\* the keys load_orders reads from each record
RecordKeys == DOMAIN to_dict(None)

\* OrderRepository() gone wrong: what cannot be read is skipped
OrderRepository_init_skip(f, rid, now) ==
    LET readable == SelectSeq(f.records, LAMBDA o : RecordKeys \subseteq DOMAIN o)
    IN  [ raised |-> "",
          orders |-> load_orders([ f EXCEPT !.records = readable ], rid, now) ]

\* OrderRepository(): load_orders, and the errors that leave it. json.load
\* raises on a torn file and o[...] on a record without the key; no store
\* is built then
OrderRepository_init(f, rid, now) ==
    IF ~ f.exists THEN [ raised |-> "", orders |-> load_orders(f, rid, now) ]
    ELSE IF "torn" \in DOMAIN f
    THEN [ raised |-> "JSONDecodeError", orders |-> << >> ]
    ELSE IF \E i \in 1..Len(f.records) : ~ (RecordKeys \subseteq DOMAIN f.records[i])
    THEN [ raised |-> "KeyError", orders |-> << >> ]
    ELSE [ raised |-> "", orders |-> load_orders(f, rid, now) ]


\* the id scan gone wrong: >= where the code compares with ==
first_with_id_ge(os, id) ==
    IF \E i \in 1..Len(os) : os[i].id >= id
    THEN CHOOSE i \in 1..Len(os) :
            /\ os[i].id >= id
            /\ \A j \in 1..(i - 1) : os[j].id < id
    ELSE 0

\* the first position whose order has this id, 0 when there is none
first_with_id(os, id) ==
    IF \E i \in 1..Len(os) : os[i].id = id
    THEN CHOOSE i \in 1..Len(os) :
            /\ os[i].id = id
            /\ \A j \in 1..(i - 1) : os[j].id # id
    ELSE 0

\* update_order gone wrong: the entry replaced in memory, the file left alone
update_order_nosave(os, f, order) ==
    LET i == first_with_id(os, order.id)
    IN  IF i = 0
        THEN [ orders |-> os, file |-> f, wrote |-> FALSE ]
        ELSE [ orders |-> [ os EXCEPT ![i] = order ], file |-> f,
               wrote |-> FALSE ]

\* update_order gone wrong: the entry taken out of the list, not replaced
update_order_delete(os, f, order) ==
    LET i == first_with_id(os, order.id)
    IN  IF i = 0
        THEN [ orders |-> os, file |-> f, wrote |-> FALSE ]
        ELSE LET new == SubSeq(os, 1, i - 1) \o SubSeq(os, i + 1, Len(os))
             IN  [ orders |-> new, file |-> save_orders(new), wrote |-> TRUE ]

\* update_order gone wrong: an order whose id is not there is added
update_order_upsert(os, f, order) ==
    LET i == first_with_id(os, order.id)
        new == IF i = 0 THEN Append(os, order) ELSE [ os EXCEPT ![i] = order ]
    IN  [ orders |-> new, file |-> save_orders(new), wrote |-> TRUE ]


\* update_order: the first entry with the order's id is replaced and the file
\* rewritten; nothing happens when no entry has it
update_order(os, f, order) ==
    LET i == first_with_id(os, order.id)
    IN  IF i = 0
        THEN [ orders |-> os, file |-> f, wrote |-> FALSE ]
        ELSE LET new == [ os EXCEPT ![i] = order ]
             IN  [ orders |-> new, file |-> save_orders(new), wrote |-> TRUE ]

(***************************************************************************)
(* OrderManager                                                            *)
(***************************************************************************)
\* OrderManager.create_order
OrderManager_create_order(os, customer_name, location, id, now) ==
    LET order == Order(customer_name, location, id, now)
        saved == save_order(os, order)
    IN  [ orders |-> saved.orders, file |-> saved.file, wrote |-> saved.wrote,
          ret |-> order, retIdx |-> Len(saved.orders) ]

\* cancel_order gone wrong: the scan passes over Removed orders and cancels
\* the first Pending one with the id
cancel_order_next(os, f, order_id) ==
    LET pending == { i \in 1..Len(os) :
                        os[i].id = order_id /\ os[i].status = "Pending" }
    IN  IF pending = {}
        THEN [ orders |-> os, file |-> f, wrote |-> FALSE,
               ret |-> None, retIdx |-> 0 ]
        ELSE LET j == CHOOSE i \in pending : \A k \in pending : i <= k
                 cancelled == [ os EXCEPT ![j] = cancel(os[j]) ]
             IN  [ orders |-> cancelled, file |-> save_orders(cancelled),
                   wrote |-> TRUE, ret |-> cancelled[j], retIdx |-> j ]


\* OrderManager.cancel_order: the scan stops at the first order with the id
cancel_order(os, f, order_id) ==
    LET j == first_with_id(os, order_id)
    IN  IF j = 0 \/ os[j].status = "Removed"
        THEN [ orders |-> os, file |-> f, wrote |-> FALSE,
               ret |-> None, retIdx |-> 0 ]
        ELSE LET cancelled == [ os EXCEPT ![j] = cancel(os[j]) ]
                 updated == update_order(cancelled, f, cancelled[j])
             IN  [ orders |-> updated.orders, file |-> updated.file,
                   wrote |-> updated.wrote,
                   ret |-> cancelled[j], retIdx |-> j ]

(***************************************************************************)
(* TrafficJamWhopper and the menu loop                                     *)
(***************************************************************************)
\* the arguments of a call: those it does not take are left blank; process
\* is the process that made it
NoArgs == [ customer_name |-> "", location |-> "", order_id |-> 0,
            order |-> None, process |-> 1 ]

\* no detector run on its own
NoScan == [ routes |-> << >>, answers |-> << >>, done |-> FALSE,
            raised |-> FALSE, jams |-> << >>, checks |-> << >> ]

\* the gate gone wrong: every location passes
has_jam_always(jams, location) == TRUE

\* location in self.traffic_jam_locations
has_jam(jams, location) == location \in Range(jams)

\* TrafficJamWhopperFactory.create on a machine with no data directory
Init ==
    /\ file = NoFile
    /\ orders = << >>
    /\ traffic_jam_locations = << >>
    /\ detected = << >>
    /\ call = NoArgs @@ [ op |-> "start" ]
    /\ ret = None
    /\ retIdx = 0
    /\ wrote = FALSE
    /\ triggered = << >>
    /\ raised = ""
    /\ scan = NoScan
    /\ orders2 = << >>
    /\ checked = FALSE

\* check_for_traffic_jams gone wrong: the new jams added to the held ones
CheckForTrafficJams_Merge ==
    \E legs \in [ 1..Len(mock_routes) -> directions ] :
        LET jams == find_traffic_jams(mock_routes, legs).jams
        IN  /\ raised = ""
            /\ traffic_jam_locations' =
                  traffic_jam_locations
                     \o SelectSeq(jams, LAMBDA n : n \notin Range(traffic_jam_locations))
            /\ detected' = jams
            /\ triggered' = [ i \in 1..Len(jams) |->
                                [ location |-> jams[i],
                                  held |-> traffic_jam_locations' ] ]
            /\ raised' = ""
            /\ UNCHANGED aside
            /\ checked' = TRUE
            /\ call' = NoArgs @@ [ op |-> "check_for_traffic_jams" ]
            /\ ret' = None
            /\ retIdx' = 0
            /\ wrote' = FALSE
            /\ UNCHANGED << orders, file >>

\* check_for_traffic_jams gone wrong: the hook called before the held set
\* is replaced
CheckForTrafficJams_HookFirst ==
    \E legs \in [ 1..Len(mock_routes) -> directions ] :
        LET jams == find_traffic_jams(mock_routes, legs).jams
        IN  /\ raised = ""
            /\ triggered' = [ i \in 1..Len(jams) |->
                                [ location |-> jams[i],
                                  held |-> traffic_jam_locations ] ]
            /\ traffic_jam_locations' = jams
            /\ detected' = jams
            /\ raised' = ""
            /\ UNCHANGED aside
            /\ checked' = TRUE
            /\ call' = NoArgs @@ [ op |-> "check_for_traffic_jams" ]
            /\ ret' = None
            /\ retIdx' = 0
            /\ wrote' = FALSE
            /\ UNCHANGED << orders, file >>

\* menu 1: check_for_traffic_jams
CheckForTrafficJams ==
    \E legs \in [ 1..Len(mock_routes) -> directions ] :
        LET jams == find_traffic_jams(mock_routes, legs).jams
        IN  /\ raised = ""
            /\ traffic_jam_locations' = jams
            /\ detected' = jams
            /\ triggered' = [ i \in 1..Len(jams) |->
                                [ location |-> jams[i],
                                  held |-> traffic_jam_locations' ] ]
            /\ raised' = ""
            /\ UNCHANGED aside
            /\ checked' = TRUE
            /\ call' = NoArgs @@ [ op |-> "check_for_traffic_jams" ]
            /\ ret' = None
            /\ retIdx' = 0
            /\ wrote' = FALSE
            /\ UNCHANGED << orders, file >>

\* menu 2: TrafficJamWhopper.create_order
CreateOrder ==
    \E customer_name \in CustomerNames, location \in Locations :
        /\ raised = ""
        /\ triggered' = << >>
        /\ raised' = ""
        /\ UNCHANGED aside
        /\ UNCHANGED checked
        /\ call' = [ NoArgs EXCEPT !.customer_name = customer_name,
                                   !.location = location ]
                      @@ [ op |-> "create_order" ]
        /\ IF ~ has_jam(traffic_jam_locations, location)
           THEN /\ ret' = None
                /\ retIdx' = 0
                /\ wrote' = FALSE
                /\ UNCHANGED << orders, file >>
           ELSE /\ Len(orders) < MaxOrders
                /\ \E draw \in Draws :
                      LET r == OrderManager_create_order(orders, customer_name,
                                                         location, draw[1], draw[2])
                      IN  /\ orders' = r.orders
                          /\ file' = r.file
                          /\ wrote' = r.wrote
                          /\ ret' = r.ret
                          /\ retIdx' = r.retIdx
        /\ UNCHANGED << traffic_jam_locations, detected >>

\* menu 4: order_manager.cancel_order
CancelOrder ==
    \E order_id \in CancelIds :
        LET r == cancel_order(orders, file, order_id)
        IN  /\ raised = ""
            /\ triggered' = << >>
            /\ raised' = ""
            /\ UNCHANGED aside
            /\ UNCHANGED checked
            /\ call' = [ NoArgs EXCEPT !.order_id = order_id ]
                          @@ [ op |-> "cancel_order" ]
            /\ orders' = r.orders
            /\ file' = r.file
            /\ wrote' = r.wrote
            /\ ret' = r.ret
            /\ retIdx' = r.retIdx
            /\ UNCHANGED << traffic_jam_locations, detected >>

\* a new run gone wrong: the jam locations of the run before are kept, as
\* if they had been stored
Restart_KeepJams ==
    \E draw \in Draws :
        /\ orders' = OrderRepository_init(file, draw[1], draw[2]).orders
        /\ raised' = OrderRepository_init(file, draw[1], draw[2]).raised
        /\ triggered' = << >>
        /\ UNCHANGED aside
        /\ checked' = FALSE
        /\ UNCHANGED traffic_jam_locations
        /\ detected' = << >>
        /\ call' = NoArgs @@ [ op |-> "restart" ]
        /\ ret' = None
        /\ retIdx' = 0
        /\ wrote' = FALSE
        /\ UNCHANGED file


\* menu 5 and a new run of main(): the factory builds everything again
Restart ==
    \E draw \in Draws :
        /\ orders' = OrderRepository_init(file, draw[1], draw[2]).orders
        /\ raised' = OrderRepository_init(file, draw[1], draw[2]).raised
        /\ triggered' = << >>
        /\ UNCHANGED aside
        /\ checked' = FALSE
        /\ traffic_jam_locations' = << >>
        /\ detected' = << >>
        /\ call' = NoArgs @@ [ op |-> "restart" ]
        /\ ret' = None
        /\ retIdx' = 0
        /\ wrote' = FALSE
        /\ UNCHANGED file

Next ==
    \/ CheckForTrafficJams
    \/ CreateOrder
    \/ CancelOrder
    \/ Restart

Spec == Init /\ [][Next]_vars

(***************************************************************************)
(* The detector on its own, over any maps client: the route records and    *)
(* the directions results are the client's to choose.                      *)
(***************************************************************************)
\* what a client can do when asked for directions: a leg (of the mock's, one
\* at 10 km/h whose double is under 10.0, one with no duration), an
\* exception, an empty list, a result without legs
Answers ==
    directions
       \cup { Leg(1150, 414), Leg(1000, 0),
              [ kind |-> "raise", distance |-> 0, duration |-> 0 ],
              [ kind |-> "empty", distance |-> 0, duration |-> 0 ],
              [ kind |-> "no_legs", distance |-> 0, duration |-> 0 ] }

\* the record a client can list at place i: the mock's, one without a name,
\* one without a geometry
RouteRecords(i) ==
    { mock_routes[i], [ geometry |-> TRUE ], [ name |-> places_nearby[i] ] }

\* the route lists a client can return
RouteLists ==
    { rs \in [ 1..Len(places_nearby) -> UNION { RouteRecords(i) : i \in 1..Len(places_nearby) } ] :
         \A i \in 1..Len(places_nearby) : rs[i] \in RouteRecords(i) }

InitDetector ==
    /\ \E rs \in RouteLists, as \in [ 1..Len(places_nearby) -> Answers ] :
          scan = [ NoScan EXCEPT !.routes = rs, !.answers = as ]
    /\ file = NoFile
    /\ orders = << >>
    /\ traffic_jam_locations = << >>
    /\ detected = << >>
    /\ call = NoArgs @@ [ op |-> "start" ]
    /\ ret = None
    /\ retIdx = 0
    /\ wrote = FALSE
    /\ triggered = << >>
    /\ raised = ""
    /\ orders2 = << >>
    /\ checked = FALSE

\* detector.find_traffic_jams() over that client
Scan ==
    /\ ~ scan.done
    /\ LET r == find_traffic_jams(scan.routes, scan.answers)
       IN  scan' = [ scan EXCEPT !.done = TRUE,
                                 !.raised = r.raised,
                                 !.jams = r.jams,
                                 !.checks = checks_made(scan.routes, scan.answers) ]
    /\ UNCHANGED << orders, file, traffic_jam_locations, detected, call, ret,
                    retIdx, wrote, triggered, raised, orders2, checked >>

NextDetector == Scan

SpecDetector == InitDetector /\ [][NextDetector]_vars

(***************************************************************************)
(* The repository on its own: save_order and update_order called with any  *)
(* order object, as a caller other than OrderManager may.                  *)
(***************************************************************************)
\* the order objects handed to the repository: built by the constructor at
\* one jammed location, Pending or cancelled, with a drawn id or another
\* one, and drawn timestamps
SampleOrders ==
    LET built == { Order(n, places_nearby[1], id, d[2]) :
                      n \in CustomerNames, id \in CancelIds, d \in Draws }
    IN  built \cup { cancel(o) : o \in built }

\* OrderRepository.save_order(order)
RepoSaveOrder ==
    \E order \in SampleOrders :
        /\ raised = ""
        /\ Len(orders) < MaxOrders
        /\ LET r == save_order(orders, order)
           IN  /\ orders' = r.orders
               /\ file' = r.file
               /\ wrote' = r.wrote
        /\ call' = [ NoArgs EXCEPT !.order = order ] @@ [ op |-> "save_order" ]
        /\ UNCHANGED << traffic_jam_locations, detected, ret, retIdx,
                        triggered, raised >>
        /\ UNCHANGED aside
        /\ UNCHANGED checked

\* OrderRepository.update_order(order)
RepoUpdateOrder ==
    \E order \in SampleOrders :
        /\ raised = ""
        /\ LET r == update_order(orders, file, order)
           IN  /\ orders' = r.orders
               /\ file' = r.file
               /\ wrote' = r.wrote
        /\ call' = [ NoArgs EXCEPT !.order = order ] @@ [ op |-> "update_order" ]
        /\ UNCHANGED << traffic_jam_locations, detected, ret, retIdx,
                        triggered, raised >>
        /\ UNCHANGED aside
        /\ UNCHANGED checked

NextRepo ==
    \/ RepoSaveOrder
    \/ RepoUpdateOrder

SpecRepo == Init /\ [][NextRepo]_vars

(***************************************************************************)
(* The order manager over a file system that can fail: a write that raises *)
(* OSError, a file edited by hand between runs.  main() catches nothing,   *)
(* so an error ends the process; what the store object then holds is kept  *)
(* in orders.                                                              *)
(***************************************************************************)
\* the locations handed to OrderManager.create_order, which has no gate
ManagerLocations == { places_nearby[1], "K Road" }

\* the keys an edit by hand removes from a record: the first and the last
\* that load_orders reads
EditedKeys == { "customer_name", "status" }

\* what a save_orders that raises leaves on disk: the old file (makedirs or
\* open failed), or a torn one (open truncated it and json.dump got through
\* so many records)
save_orders_fails(os, f) ==
    { f } \cup { Torn(SubSeq(save_orders(os).records, 1, k)) : k \in 0..(Len(os) - 1) }

\* OrderManager.create_order
ManagerCreateOrder ==
    \E customer_name \in CustomerNames, location \in ManagerLocations, draw \in Draws :
        LET r == OrderManager_create_order(orders, customer_name, location,
                                           draw[1], draw[2])
        IN  /\ raised = ""
            /\ Len(orders) < MaxOrders
            /\ orders' = r.orders
            /\ file' = r.file
            /\ wrote' = r.wrote
            /\ ret' = r.ret
            /\ retIdx' = r.retIdx
            /\ call' = [ NoArgs EXCEPT !.customer_name = customer_name,
                                       !.location = location ]
                          @@ [ op |-> "create_order" ]
            /\ UNCHANGED << traffic_jam_locations, detected, triggered, raised >>
            /\ UNCHANGED aside
            /\ UNCHANGED checked

\* OrderManager.cancel_order
ManagerCancelOrder ==
    \E order_id \in CancelIds :
        LET r == cancel_order(orders, file, order_id)
        IN  /\ raised = ""
            /\ orders' = r.orders
            /\ file' = r.file
            /\ wrote' = r.wrote
            /\ ret' = r.ret
            /\ retIdx' = r.retIdx
            /\ call' = [ NoArgs EXCEPT !.order_id = order_id ]
                          @@ [ op |-> "cancel_order" ]
            /\ UNCHANGED << traffic_jam_locations, detected, triggered, raised >>
            /\ UNCHANGED aside
            /\ UNCHANGED checked

\* OrderManager.create_order when the write raises: save_order has appended
\* the order by then, and nothing takes it back
ManagerCreateOrderFails ==
    \E customer_name \in CustomerNames, location \in ManagerLocations, draw \in Draws :
        LET r == OrderManager_create_order(orders, customer_name, location,
                                           draw[1], draw[2])
        IN  /\ raised = ""
            /\ Len(orders) < MaxOrders
            /\ orders' = r.orders
            /\ \E left \in save_orders_fails(r.orders, file) :
                  /\ file' = left
                  /\ wrote' = (left # file)
            /\ raised' = "OSError"
            /\ ret' = None
            /\ retIdx' = 0
            /\ call' = [ NoArgs EXCEPT !.customer_name = customer_name,
                                       !.location = location ]
                          @@ [ op |-> "create_order" ]
            /\ UNCHANGED << traffic_jam_locations, detected, triggered >>
            /\ UNCHANGED aside
            /\ UNCHANGED checked

\* OrderManager.cancel_order when the write raises: order.cancel() has set
\* the status by then, and nothing sets it back
ManagerCancelOrderFails ==
    \E order_id \in CancelIds :
        LET r == cancel_order(orders, file, order_id)
        IN  /\ raised = ""
            /\ r.wrote
            /\ orders' = r.orders
            /\ \E left \in save_orders_fails(r.orders, file) :
                  /\ file' = left
                  /\ wrote' = (left # file)
            /\ raised' = "OSError"
            /\ ret' = None
            /\ retIdx' = 0
            /\ call' = [ NoArgs EXCEPT !.order_id = order_id ]
                          @@ [ op |-> "cancel_order" ]
            /\ UNCHANGED << traffic_jam_locations, detected, triggered >>
            /\ UNCHANGED aside
            /\ UNCHANGED checked

\* orders.json edited by hand: one record of a sound file loses a key
Tamper ==
    \E i \in 1..Len(file.records), key \in EditedKeys :
        /\ file.exists
        /\ "torn" \notin DOMAIN file
        /\ \A k \in 1..Len(file.records) : RecordKeys \subseteq DOMAIN file.records[k]
        /\ file' = [ file EXCEPT !.records[i] =
                        [ f \in DOMAIN file.records[i] \ { key } |-> file.records[i][f] ] ]
        /\ call' = NoArgs @@ [ op |-> "edit" ]
        /\ UNCHANGED << orders, traffic_jam_locations, detected, ret, retIdx,
                        wrote, triggered, raised >>
        /\ UNCHANGED aside
        /\ UNCHANGED checked

NextFaults ==
    \/ ManagerCreateOrder
    \/ ManagerCancelOrder
    \/ ManagerCreateOrderFails
    \/ ManagerCancelOrderFails
    \/ Tamper
    \/ Restart

SpecFaults == Init /\ [][NextFaults]_vars

(***************************************************************************)
(* Two processes, each with its own OrderRepository, on one orders.json.   *)
(* Every call runs to its end before the next: the race is between whole   *)
(* calls.                                                                  *)
(***************************************************************************)
Processes == { 1, 2 }

\* OrderRepository.orders of a process
mem(p) == IF p = 1 THEN orders ELSE orders2

\* the id and time a process draws: the first process the low id at a whole
\* second, the second the high id
DrawsOf(p) == { d \in Draws : (p = 1) <=> (d[1] = IdLo) }

\* OrderManager.create_order gone wrong: the file is loaded again before
\* the order is appended
TwoCreateOrder_Reload(p) ==
    \E customer_name \in CustomerNames, draw \in DrawsOf(p) :
        LET loaded == OrderRepository_init(file, draw[1], draw[2]).orders
            r == OrderManager_create_order(loaded, customer_name,
                                           places_nearby[1], draw[1], draw[2])
        IN  /\ Len(mem(p)) < MaxOrders
            /\ Len(loaded) < MaxOrders
            /\ IF p = 1 THEN orders' = r.orders /\ UNCHANGED orders2
                        ELSE orders2' = r.orders /\ UNCHANGED orders
            /\ file' = r.file
            /\ wrote' = r.wrote
            /\ ret' = r.ret
            /\ retIdx' = r.retIdx
            /\ call' = [ NoArgs EXCEPT !.customer_name = customer_name,
                                       !.location = places_nearby[1],
                                       !.process = p ]
                          @@ [ op |-> "create_order" ]
            /\ UNCHANGED << traffic_jam_locations, detected, triggered,
                            raised, scan, checked >>

\* OrderManager.create_order in process p
TwoCreateOrder(p) ==
    \E customer_name \in CustomerNames, draw \in DrawsOf(p) :
        LET r == OrderManager_create_order(mem(p), customer_name,
                                           places_nearby[1], draw[1], draw[2])
        IN  /\ Len(mem(p)) < MaxOrders
            /\ IF p = 1 THEN orders' = r.orders /\ UNCHANGED orders2
                        ELSE orders2' = r.orders /\ UNCHANGED orders
            /\ file' = r.file
            /\ wrote' = r.wrote
            /\ ret' = r.ret
            /\ retIdx' = r.retIdx
            /\ call' = [ NoArgs EXCEPT !.customer_name = customer_name,
                                       !.location = places_nearby[1],
                                       !.process = p ]
                          @@ [ op |-> "create_order" ]
            /\ UNCHANGED << traffic_jam_locations, detected, triggered,
                            raised, scan, checked >>

\* OrderManager.cancel_order in process p
TwoCancelOrder(p) ==
    \E order_id \in CancelIds :
        LET r == cancel_order(mem(p), file, order_id)
        IN  /\ IF p = 1 THEN orders' = r.orders /\ UNCHANGED orders2
                        ELSE orders2' = r.orders /\ UNCHANGED orders
            /\ file' = r.file
            /\ wrote' = r.wrote
            /\ ret' = r.ret
            /\ retIdx' = r.retIdx
            /\ call' = [ NoArgs EXCEPT !.order_id = order_id, !.process = p ]
                          @@ [ op |-> "cancel_order" ]
            /\ UNCHANGED << traffic_jam_locations, detected, triggered,
                            raised, scan, checked >>

\* process p ends and main() runs again: its repository loads the file
TwoRestart(p) ==
    \E draw \in DrawsOf(p) :
        LET r == OrderRepository_init(file, draw[1], draw[2])
        IN  /\ IF p = 1 THEN orders' = r.orders /\ UNCHANGED orders2
                        ELSE orders2' = r.orders /\ UNCHANGED orders
            /\ call' = [ NoArgs EXCEPT !.process = p ] @@ [ op |-> "restart" ]
            /\ ret' = None
            /\ retIdx' = 0
            /\ wrote' = FALSE
            /\ UNCHANGED << file, traffic_jam_locations, detected, triggered,
                            raised, scan, checked >>

NextTwo ==
    \E p \in Processes :
        \/ TwoCreateOrder(p)
        \/ TwoCancelOrder(p)
        \/ TwoRestart(p)

SpecTwo == Init /\ [][NextTwo]_vars

(***************************************************************************)
(* Properties                                                              *)
(***************************************************************************)
\* the step is a TrafficJamWhopper.create_order call
IsCreate == call'.op = "create_order"
\* the step is an OrderManager.cancel_order call
IsCancel == call'.op = "cancel_order"
\* the positions of the orders with this id
WithId(os, id) == { i \in 1..Len(os) : os[i].id = id }

\* C1: create_order with a location that is not an exact member of the held
\* jam set returns None, leaves the in-memory collection and the backing file
\* as they were, and writes nothing.
C1_RejectedCreateChangesNothing ==
    [][ (IsCreate /\ call'.location \notin Range(traffic_jam_locations))
          => /\ ret' = None
             /\ retIdx' = 0
             /\ orders' = orders
             /\ file' = file
             /\ ~ wrote' ]_vars

\* C1 happens: with a jam held and an order stored, a create_order for a
\* location that differs from a held name only in case came back None
C1_Witness ==
    /\ call.op = "create_order"
    /\ call.location = "queen street"
    /\ "Queen Street" \in Range(traffic_jam_locations)
    /\ ret = None
    /\ Len(orders) >= 1

\* C2: create_order with a location in the held jam set returns a Pending
\* order with the given customer name and location; the collection get_orders
\* returns grows by exactly that order, and every later step keeps each stored
\* order at its place with its id, customer name and location.
C2_AcceptedCreateAppends ==
    [][ /\ (IsCreate /\ call'.location \in Range(traffic_jam_locations))
            => /\ ret' # None
               /\ ret'.customer_name = call'.customer_name
               /\ ret'.location = call'.location
               /\ ret'.status = "Pending"
               /\ get_orders' = Append(get_orders, ret')
               /\ retIdx' = Len(get_orders')
        /\ \A i \in 1..Len(get_orders) :
              /\ i <= Len(get_orders')
              /\ get_orders'[i].id = get_orders[i].id
              /\ get_orders'[i].customer_name = get_orders[i].customer_name
              /\ get_orders'[i].location = get_orders[i].location ]_vars

\* C2 happens: a second order was accepted, with an id the store already held
C2_Witness ==
    /\ call.op = "create_order"
    /\ ret # None
    /\ retIdx = 2
    /\ orders[2] = ret
    /\ orders[1].id = ret.id

\* C3: every order in the store has an id different from the id of every
\* other order in the store.
C3_UniqueIds ==
    \A i, j \in 1..Len(orders) : i # j => orders[i].id # orders[j].id

\* C4: for every order in the store whose status is Pending, cancel_order
\* with its id returns that very order and its status becomes Removed; and
\* cancel_order with the id of an order that is Removed returns None and
\* leaves that order Removed.
C4_CancelEveryPendingOrder ==
    [][ IsCancel =>
          \A i \in WithId(orders, call'.order_id) :
             /\ orders[i].status = "Pending"
                   => /\ retIdx' = i
                      /\ ret' = orders'[i]
                      /\ orders'[i].status = "Removed"
             /\ orders[i].status = "Removed"
                   => /\ ret' = None
                      /\ orders'[i].status = "Removed" ]_vars

\* C5: the status of every order is Pending or Removed, and from one state to
\* the next the order at each place keeps its status or goes from Pending to
\* Removed.
C5_StatusOnlyPendingToRemoved ==
    /\ [](\A i \in 1..Len(orders) : orders[i].status \in { "Pending", "Removed" })
    /\ [][ \A i \in 1..Len(orders) :
              /\ i <= Len(orders')
              /\ \/ orders'[i].status = orders[i].status
                 \/ /\ orders[i].status = "Pending"
                    /\ orders'[i].status = "Removed" ]_vars

\* C5 happens: the process started again over a file holding a Removed order
C5_Witness ==
    /\ call.op = "restart"
    /\ Len(orders) = 2
    /\ orders[1].status = "Removed"
    /\ orders[2].status = "Pending"

\* the backing file holds one record per order, in the same order, with the
\* order's id, customer name, location, timestamp and status
FileAgrees ==
    /\ file.exists
    /\ Len(file.records) = Len(orders)
    /\ \A i \in 1..Len(orders) :
          /\ file.records[i].id = orders[i].id
          /\ file.records[i].customer_name = orders[i].customer_name
          /\ file.records[i].location = orders[i].location
          /\ file.records[i].status = orders[i].status
          /\ file.records[i].timestamp = isoformat(orders[i].timestamp)

\* C6: after every create_order that stored an order and every cancel_order
\* that cancelled one, the backing file holds exactly the records of the
\* complete in-memory collection, in the same order.
C6_FileFollowsMemory ==
    [][ ((IsCreate \/ IsCancel) /\ ret' # None) => (wrote' /\ FileAgrees') ]_vars

\* C6 happens: the second of two orders was cancelled and the file has both
C6_Witness ==
    /\ call.op = "cancel_order"
    /\ retIdx = 2
    /\ orders[1].status = "Pending"
    /\ file.records[2].status = "Removed"
    /\ FileAgrees

\* C7: whatever the constructor draws, loading the backing file gives the
\* in-memory collection back: as many orders, in the same order, each with
\* its id, customer name, location, timestamp and status.
C7_RoundTrip ==
    file.exists =>
        \A draw \in Draws :
            LET loaded == load_orders(file, draw[1], draw[2])
            IN  /\ Len(loaded) = Len(orders)
                /\ \A i \in 1..Len(orders) :
                      /\ loaded[i].id = orders[i].id
                      /\ loaded[i].customer_name = orders[i].customer_name
                      /\ loaded[i].location = orders[i].location
                      /\ loaded[i].timestamp = orders[i].timestamp
                      /\ loaded[i].status = orders[i].status

\* C7 happens: a store was built from a file of two orders, one Removed and
\* one Pending, with different ids and one timestamp on a whole second
C7_Witness ==
    /\ call.op = "restart"
    /\ Len(orders) = 2
    /\ orders[1].id # orders[2].id
    /\ orders[1].status # orders[2].status
    /\ orders[1].timestamp = Million
    /\ orders[2].timestamp = Million + 1

\* C8: cancel_order with an id no order in the store has returns None,
\* leaves the collection and the file as they were and writes nothing.
C8_CancelUnknownIdChangesNothing ==
    [][ (IsCancel /\ WithId(orders, call'.order_id) = {})
          => /\ ret' = None
             /\ retIdx' = 0
             /\ orders' = orders
             /\ file' = file
             /\ ~ wrote' ]_vars

\* C8 happens: an id between the ids of two stored Pending orders was
\* cancelled and None came back
C8_Witness ==
    /\ call.op = "cancel_order"
    /\ call.order_id = IdLo + 1
    /\ ret = None
    /\ Len(orders) = 2
    /\ orders[1].id = IdLo /\ orders[1].status = "Pending"
    /\ orders[2].id = IdHi /\ orders[2].status = "Pending"

\* C9: no create_order and no cancel_order makes the collection shorter, and
\* an order that cancel_order cancelled is still in the collection and in
\* the backing file, at its place, with status Removed.
C9_NeverDeleted ==
    [][ (IsCreate \/ IsCancel)
          => /\ Len(orders') >= Len(orders)
             /\ (IsCancel /\ ret' # None)
                   => /\ Len(orders') = Len(orders)
                      /\ retIdx' \in 1..Len(orders')
                      /\ orders'[retIdx'].id = call'.order_id
                      /\ orders'[retIdx'].status = "Removed"
                      /\ Len(file'.records) = Len(orders)
                      /\ file'.records[retIdx'].id = call'.order_id
                      /\ file'.records[retIdx'].status = "Removed" ]_vars

\* C9 happens: the first of two orders was cancelled and both are still there
C9_Witness ==
    /\ call.op = "cancel_order"
    /\ retIdx = 1
    /\ Len(orders) = 2
    /\ orders[1].status = "Removed"
    /\ Len(file.records) = 2

\* C10: a detection run leaves the held jam set equal to what the detector
\* returned in that run, whatever was held before; after it create_order is
\* accepted for exactly the locations that run returned, so a location
\* returned only by an earlier run is rejected and one returned only by the
\* latest run is accepted.
C10_JamSetReplaced ==
    [][ /\ call'.op = "check_for_traffic_jams"
            => traffic_jam_locations' = detected'
        /\ (IsCreate /\ call'.location \notin Range(detected))
            => ret' = None
        /\ (IsCreate /\ call'.location \in Range(detected))
            => (ret' # None /\ ret'.location = call'.location) ]_vars

\* C10 happens: the location of the first order, jammed in the run under
\* which that order was accepted, was rejected after a later run that found
\* a jam elsewhere only, under which the second order was accepted
C10_Witness ==
    /\ call.op = "create_order"
    /\ ret = None
    /\ Len(orders) = 2
    /\ call.location = orders[1].location
    /\ call.location \notin Range(detected)
    /\ orders[2].location \in Range(detected)

\* route i of the detector run is a record like the mock's and the client
\* answered with a leg of the mock's range
MockLike(i) ==
    /\ { "name", "geometry" } \subseteq DOMAIN scan.routes[i]
    /\ scan.answers[i].kind = "leg"
    /\ scan.answers[i].distance \in 1000..5000
    /\ scan.answers[i].duration \in 300..1800

C12_ScanNeverAborts ==
    scan.done =>
        /\ ~ scan.raised
        /\ scan.jams =
              LET hit(i) ==
                     /\ { "name", "geometry" } \subseteq DOMAIN scan.routes[i]
                     /\ scan.answers[i].kind = "leg"
                     /\ scan.answers[i].duration # 0
                     /\ LET v == average_speed(scan.answers[i].distance,
                                               scan.answers[i].duration)
                        IN  v[1] < 10 \/ (v[1] = 10 /\ v[2] > 0)
                  RECURSIVE names(_)
                  names(i) ==
                     IF i > Len(scan.routes) THEN << >>
                     ELSE IF hit(i) THEN << scan.routes[i].name >> \o names(i + 1)
                          ELSE names(i + 1)
              IN  names(1)

\* C13: a detection run calls trigger_order_availability once for each
\* location of the jam set it stored, in the order of that set, with the set
\* already replaced at each call; it makes no call when the set is empty.
C13_HookOncePerJam ==
    [][ call'.op = "check_for_traffic_jams"
          => /\ Len(triggered') = Len(traffic_jam_locations')
             /\ \A i \in 1..Len(triggered') :
                   /\ triggered'[i].location = traffic_jam_locations'[i]
                   /\ triggered'[i].held = traffic_jam_locations'
                   /\ triggered'[i].held = detected'
             /\ \A n \in Range(traffic_jam_locations') :
                   Cardinality({ i \in 1..Len(triggered') :
                                    triggered'[i].location = n }) = 1
             /\ detected' = << >> => triggered' = << >> ]_vars

\* C13 happens: a run that found both routes jammed, after a run that had
\* found one, called the hook for the first and then for the second
C13_Witness ==
    /\ call.op = "check_for_traffic_jams"
    /\ Len(triggered) = 2
    /\ triggered[1].location = places_nearby[1]
    /\ triggered[2].location = places_nearby[2]
    /\ triggered[1].held = << places_nearby[1], places_nearby[2] >>
    /\ Len(orders) >= 1

\* C14: update_order(order) with an id no entry has raises nothing, leaves
\* the list as it was and does not write the file; with an id some entry has,
\* the first such entry becomes the order, every other entry stays, and the
\* file is rewritten from the new list.
C14_UpdateUnknownIsNoOp ==
    [][ call'.op = "update_order"
          => LET order == call'.order
                 hits == WithId(orders, order.id)
             IN  /\ raised' = ""
                 /\ hits = {}
                      => /\ orders' = orders
                         /\ file' = file
                         /\ wrote' = FALSE
                 /\ hits # {}
                      => /\ Len(orders') = Len(orders)
                         /\ \A i \in 1..Len(orders) :
                               orders'[i] =
                                  IF i \in hits /\ \A j \in hits : i <= j
                                  THEN order ELSE orders[i]
                         /\ wrote' = TRUE
                         /\ file' = save_orders(orders') ]_vars

\* C14 happens: update_order was handed an order whose id no stored order
\* has, with two orders stored and the file written
C14_Witness ==
    /\ call.op = "update_order"
    /\ Len(orders) = 2
    /\ WithId(orders, call.order.id) = {}
    /\ file.exists
    /\ wrote = FALSE

\* the file cannot be loaded: torn, or with a record that lacks a key
Malformed(f) ==
    /\ f.exists
    /\ \/ "torn" \in DOMAIN f
       \/ \E i \in 1..Len(f.records) : ~ (RecordKeys \subseteq DOMAIN f.records[i])

\* C15: construction with no file gives an empty store and no error; with a
\* malformed file it fails with an error; and whenever it succeeds the store
\* holds one order per record of the file, none dropped.
C15_LoadAllOrFail ==
    [][ call'.op = "restart"
          => /\ ~ file.exists => (raised' = "" /\ orders' = << >>)
             /\ Malformed(file) => raised' # ""
             /\ raised' = ""
                  => /\ Len(orders') = Len(file.records)
                     /\ \A i \in 1..Len(orders') :
                           to_dict(orders'[i]) = file.records[i] ]_vars

\* C15 happens: a start found two records of which one lacks a key, and
\* failed
C15_Witness ==
    /\ call.op = "restart"
    /\ raised = "KeyError"
    /\ Len(file.records) = 2
    /\ \E i \in 1..2 : RecordKeys \subseteq DOMAIN file.records[i]

\* C16: when the write raises during create_order or cancel_order, the
\* error reaches the caller and the in-memory orders are those of before the
\* call.
C16_FailedWriteChangesNothing ==
    [][ /\ call'.op \in { "create_order", "cancel_order" }
        /\ raised' = "OSError"
          => orders' = orders ]_vars

\* C17: a rewrite by one process puts in the file its own orders and the
\* order the call returns, and nothing else: what the file held from the
\* other process is not carried over, so an order the other process
\* persisted can be lost.
C17_RewriteFromOwnMemory ==
    [][ wrote'
          => LET p == call'.process
                 own == { to_dict(o) : o \in Range(mem(p)) } \cup { to_dict(ret') }
             IN  /\ Range(file'.records) \subseteq own
                 /\ file' = IF p = 1 THEN save_orders(orders')
                                     ELSE save_orders(orders2') ]_vars

\* C17 happens: the first process holds an order it created and persisted,
\* the second process has just rewritten the file, and that order is not in
\* the file
C17_Witness ==
    /\ call.process = 2
    /\ wrote
    /\ \E i \in 1..Len(orders) :
          /\ orders[i].id = IdLo
          /\ \A k \in 1..Len(file.records) : file.records[k].id # IdLo

\* C18: a start, first or later, leaves the jam set empty whatever the file
\* holds and whatever was jammed before; and as long as
\* check_for_traffic_jams has not run in the process, every create_order is
\* rejected: None comes back, and neither list nor file changes.
C18_NoOrdersBeforeFirstCheck ==
    [][ /\ call'.op = "restart" => traffic_jam_locations' = << >>
        /\ ~ checked => traffic_jam_locations = << >>
        /\ IsCreate /\ ~ checked
             => /\ ret' = None
                /\ orders' = orders
                /\ file' = file
                /\ wrote' = FALSE ]_vars

\* C18 happens: after a new start, with no check run yet, an order for the
\* location of an order in the file (so jammed in the run before) was
\* rejected
C18_Witness ==
    /\ call.op = "create_order"
    /\ ~ checked
    /\ ret = None
    /\ \E i \in 1..Len(orders) : orders[i].location = call.location
    /\ file.exists

\* C19: a cancel_order call leaves every order at its place with its id,
\* customer name, location and timestamp, leaves the status of every order
\* but the one it returns, and leaves the jam set.
C19_CancelTouchesOnlyStatus ==
    [][ IsCancel
          => /\ Len(orders') = Len(orders)
             /\ \A i \in 1..Len(orders) :
                   /\ orders'[i].id = orders[i].id
                   /\ orders'[i].customer_name = orders[i].customer_name
                   /\ orders'[i].location = orders[i].location
                   /\ orders'[i].timestamp = orders[i].timestamp
                   /\ i # retIdx' => orders'[i].status = orders[i].status
             /\ traffic_jam_locations' = traffic_jam_locations ]_vars

\* C19 happens: with a jam held and two orders stored, the second was
\* cancelled and the first is still Pending
C19_Witness ==
    /\ call.op = "cancel_order"
    /\ retIdx = 2
    /\ orders[2].status = "Removed"
    /\ orders[1].status = "Pending"
    /\ orders[2].timestamp = Million + 1
    /\ traffic_jam_locations # << >>

\* C20: a cancel_order call changes the status of no order but the first
\* one with the id; when that one is Removed it returns None and changes
\* nothing, whatever comes after it.
C20_OnlyFirstMatch ==
    [][ IsCancel
          => LET hits == WithId(orders, call'.order_id)
                 changed == { i \in 1..Len(orders) :
                                 orders'[i].status # orders[i].status }
             IN  /\ Cardinality(changed) <= 1
                 /\ \A i \in changed : i \in hits /\ \A j \in hits : i <= j
                 /\ \A i \in hits :
                       (orders[i].status = "Removed" /\ \A j \in hits : i <= j)
                          => /\ ret' = None
                             /\ orders' = orders
                             /\ file' = file
                             /\ wrote' = FALSE ]_vars

\* C20 happens: the id of a Removed order followed by a Pending order with
\* the same id was cancelled; None came back and the later order is Pending
C20_Witness ==
    /\ call.op = "cancel_order"
    /\ ret = None
    /\ Len(orders) = 2
    /\ orders[1].id = call.order_id
    /\ orders[2].id = call.order_id
    /\ orders[1].status = "Removed"
    /\ orders[2].status = "Pending"

====
